---- MODULE Spec2Model ----
(***************************************************************************)
(* wildbow_epub_gen (src/src/main.rs): table-of-contents parsing, the      *)
(* bounded ordered download of the chapters, the chapter extractor, the    *)
(* obfuscated-mail decoder and the EPUB assembly loop.                     *)
(*                                                                         *)
(* A Rust String is modelled as the sequence of its UTF-8 bytes (numbers   *)
(* 0..255); positions are 1-based where Rust's are 0-based.  A value that  *)
(* a Rust function returns or fails to return is a record                  *)
(* [ok |-> BOOLEAN, val |-> bytes]: ok = FALSE stands for a panic.         *)
(***************************************************************************)
EXTENDS Integers, Sequences, FiniteSets, TLC

VARIABLES
    \* ---- main: the download loop and the assembly (lines 30-104)
    pc,             \* where main is
    num_threads,    \* num_threads (line 30)
    toc,            \* the Vec<Chapter> get_chapter_list returned (line 38)
    nextIncoming,   \* how many futures stream::iter(handles) has yielded
    srcDone,        \* the fused source stream has returned None
    inProgress,     \* indices of the futures polled and not yet finished
    queuedOutputs,  \* finished out of turn: index -> outcome
    nextOutgoing,   \* index of the next outcome buffer.next() may yield
    chapters,       \* the Vec of outcomes main collects (lines 47-50)
    fetched,        \* index -> the response the network gave that chapter
    asmIdx,         \* how many outcomes the for_each of line 82 has visited
    docs,           \* content documents added after the title page
    panicMsg,       \* which panic ended the run, "" if none
    \* ---- fix_emails applied once and twice (lines 167-188, 194-203)
    em_pc, em_segs, em_in, em_once, em_twice,
    \* ---- get_chapter_list on one anchor (lines 31-34, 146-162)
    url_pc, url_arg, url_root, url_href, url_out

pipeVars == <<pc, num_threads, toc, nextIncoming, srcDone, inProgress,
              queuedOutputs, nextOutgoing, chapters, fetched, asmIdx, docs,
              panicMsg>>
emVars == <<em_pc, em_segs, em_in, em_once, em_twice>>
urlVars == <<url_pc, url_arg, url_root, url_href, url_out>>
vars == <<pipeVars, emVars, urlVars>>

\* ------------------------------------------------------------------ bounds
MaxSegs == 3
MaxHrefParts == 3
MaxChapters == 3
MaxThreads == 2

\* ----------------------------------------------------------- byte strings
\* "<a "
AOpen == <<60, 97, 32>>
\* "[email&nbsp;protected]</a>"
Marker == <<91, 101, 109, 97, 105, 108, 38, 110, 98, 115, 112, 59, 112, 114, 111, 116, 101, 99, 116, 101, 100, 93, 60, 47, 97, 62>>
\* "data-cfemail=" followed by a double quote
CfAttr == <<100, 97, 116, 97, 45, 99, 102, 101, 109, 97, 105, 108, 61, 34>>
\* "class=", a quoted "__cf_email__", and a space
ClassAttr == <<99, 108, 97, 115, 115, 61, 34, 95, 95, 99, 102, 95, 101, 109, 97, 105, 108, 95, 95, 34, 32>>
\* "http"
Http == <<104, 116, 116, 112>>
\* "http://"
HttpScheme == <<104, 116, 116, 112, 58, 47, 47>>
\* "https://"
HttpsScheme == <<104, 116, 116, 112, 115, 58, 47, 47>>
\* "Could not retrieve chapter "
CouldNot == <<67, 111, 117, 108, 100, 32, 110, 111, 116, 32, 114, 101, 116, 114, 105, 101, 118, 101, 32, 99, 104, 97, 112, 116, 101, 114, 32>>
\* " from: "
From == <<32, 102, 114, 111, 109, 58, 32>>
\* "<h1>"
H1Open == <<60, 104, 49, 62>>
\* "</h1>"
H1Close == <<60, 47, 104, 49, 62>>
\* "<br /><hr /><br /><h1><center>", U+1F98B, "</center></h1>"
Butterfly == <<60, 98, 114, 32, 47, 62, 60, 104, 114, 32, 47, 62, 60, 98, 114, 32, 47, 62, 60, 104, 49, 62, 60, 99, 101, 110, 116, 101, 114, 62, 240, 159, 166, 139, 60, 47, 99, 101, 110, 116, 101, 114, 62, 60, 47, 104, 49, 62>>
\* U+2013 EN DASH
EnDash == <<226, 128, 147>>

Ok(s) == [ok |-> TRUE, val |-> s]
Panic == [ok |-> FALSE, val |-> <<>>]

\* str[p..] starts with lit (str::starts_with at an offset)
StartsWithAt(s, p, lit) ==
    /\ p >= 1
    /\ p + Len(lit) - 1 <= Len(s)
    /\ \A j \in 1..Len(lit) : s[p + j - 1] = lit[j]

starts_with(s, lit) == StartsWithAt(s, 1, lit)

ends_with(s, lit) == Len(s) >= Len(lit) /\ StartsWithAt(s, Len(s) - Len(lit) + 1, lit)

\* the regex class \s, on ASCII
IsSpace(c) == c \in {9, 10, 11, 12, 13, 32}

MinOf(S) == CHOOSE x \in S : \A y \in S : x <= y

RECURSIVE Concat(_)
Concat(ss) == IF ss = <<>> THEN <<>> ELSE Head(ss) \o Concat(Tail(ss))

\* ------------------------------------------------------- fix_emails pieces
\* the literal that opens email_a, r#"<a "#: its length if s has it at p, else 0
EmailAOpenNoSpace(s, p) == IF StartsWithAt(s, p, SubSeq(AOpen, 1, 2)) THEN 2 ELSE 0
EmailAOpen(s, p) == IF StartsWithAt(s, p, AOpen) THEN Len(AOpen) ELSE 0

\* ([^>]+?)> followed by the marker, lazily, with q the first position that
\* may hold the closing '>': group 1 cannot run over a '>', so the match ends
\* at the first '>' from q on if the marker follows it, and fails otherwise.
\* The position of that '>', or 0
AttrEnd(s, q) ==
    LET gts == {j \in q..Len(s) : s[j] = 62} IN
    IF gts = {} THEN 0
    ELSE LET g == MinOf(gts) IN IF StartsWithAt(s, g + 1, Marker) THEN g ELSE 0

\* email_a matched with its start at p: where group 1 starts and the position
\* of the closing '>' (0 when there is no match at p)
EmailAMatch(s, p) ==
    LET o == EmailAOpen(s, p) IN
    IF o # 0 /\ p + o <= Len(s) /\ s[p + o] # 62
    THEN [attrs |-> p + o, gt |-> AttrEnd(s, p + o + 1)]
    ELSE [attrs |-> p, gt |-> 0]

\* email_a.captures_iter(&input) from position p on: the successive
\* non-overlapping leftmost matches, each (start, end exclusive, attrs)
RECURSIVE CapturesIter(_, _)
CapturesIter(s, p) ==
    LET starts == {j \in p..Len(s) : EmailAMatch(s, j).gt # 0} IN
    IF starts = {} THEN <<>>
    ELSE LET b == MinOf(starts)
             m == EmailAMatch(s, b)
         IN  <<[start |-> b, end |-> m.gt + 1 + Len(Marker),
                attrs |-> SubSeq(s, m.attrs, m.gt - 1)]>>
             \o CapturesIter(s, m.gt + 1 + Len(Marker))

\* (\S+?)" lazily, with q the first position that may hold the closing quote:
\* group 1 cannot run over whitespace, so the match ends at the first quote
\* from q on unless whitespace comes first. The position of the quote, or 0
DataEnd(a, q) ==
    LET stops == {j \in q..Len(a) : a[j] = 34 \/ IsSpace(a[j])} IN
    IF stops = {} THEN 0
    ELSE LET e == MinOf(stops) IN IF a[e] = 34 THEN e ELSE 0

\* email_data matched with its start at p: the position of the closing quote, or 0
EmailDataMatch(a, p) ==
    LET d == p + Len(CfAttr) IN
    IF StartsWithAt(a, p, CfAttr) /\ d <= Len(a) /\ ~IsSpace(a[d])
    THEN DataEnd(a, d + 1) ELSE 0

\* email_data.captures(attrs): the leftmost match's group 1, or none
EmailData(a) ==
    LET starts == {j \in 1..Len(a) : EmailDataMatch(a, j) # 0} IN
    IF starts = {} THEN [found |-> FALSE, data |-> <<>>]
    ELSE LET b == MinOf(starts) IN
         [found |-> TRUE,
          data |-> SubSeq(a, b + Len(CfAttr), EmailDataMatch(a, b) - 1)]

\* one hex digit's value, -1 if it is none (hex::decode takes both cases)
HexVal(c) ==
    IF c \in 48..57 THEN c - 48
    ELSE IF c \in 97..102 THEN c - 87
    ELSE IF c \in 65..70 THEN c - 55
    ELSE -1

\* hex::decode: an error on an odd length or on a character that is no digit
HexDecode(d) ==
    IF (Len(d) % 2) # 0 \/ \E i \in 1..Len(d) : HexVal(d[i]) = -1 THEN Panic
    ELSE Ok([i \in 1..(Len(d) \div 2) |-> 16 * HexVal(d[2 * i - 1]) + HexVal(d[2 * i])])

\* a ^ b on n bits
RECURSIVE XorBits(_, _, _)
XorBits(a, b, n) ==
    IF n = 0 THEN 0
    ELSE (((a % 2) + (b % 2)) % 2) + 2 * XorBits(a \div 2, b \div 2, n - 1)

Xor(byte, key) == XorBits(byte, key, 8)

\* std::str::from_utf8's validity check, from position i on
RECURSIVE Utf8Valid(_, _)
Utf8Valid(b, i) ==
    LET n == Len(b)
        Cont(j) == j <= n /\ b[j] \in 128..191
    IN
    IF i > n THEN TRUE
    ELSE IF b[i] <= 127 THEN Utf8Valid(b, i + 1)
    ELSE IF b[i] \in 194..223 THEN Cont(i + 1) /\ Utf8Valid(b, i + 2)
    ELSE IF b[i] = 224 THEN i + 1 <= n /\ b[i + 1] \in 160..191 /\ Cont(i + 2) /\ Utf8Valid(b, i + 3)
    ELSE IF b[i] \in (225..236) \cup {238, 239} THEN Cont(i + 1) /\ Cont(i + 2) /\ Utf8Valid(b, i + 3)
    ELSE IF b[i] = 237 THEN i + 1 <= n /\ b[i + 1] \in 128..159 /\ Cont(i + 2) /\ Utf8Valid(b, i + 3)
    ELSE IF b[i] = 240 THEN i + 1 <= n /\ b[i + 1] \in 144..191 /\ Cont(i + 2) /\ Cont(i + 3) /\ Utf8Valid(b, i + 4)
    ELSE IF b[i] \in 241..243 THEN Cont(i + 1) /\ Cont(i + 2) /\ Cont(i + 3) /\ Utf8Valid(b, i + 4)
    ELSE IF b[i] = 244 THEN i + 1 <= n /\ b[i + 1] \in 128..143 /\ Cont(i + 2) /\ Cont(i + 3) /\ Utf8Valid(b, i + 4)
    ELSE FALSE

\* lines 179-185 for one match: hex::decode(..).unwrap(), bytes[0], the XOR
\* of the rest with it, from_utf8(..).unwrap()
DecodeEmail(data) ==
    LET h == HexDecode(data) IN
    IF ~h.ok \/ Len(h.val) = 0 THEN Panic
    ELSE LET key == h.val[1]
             decoded == [i \in 1..(Len(h.val) - 1) |-> Xor(h.val[i + 1], key)]
         IN  IF Utf8Valid(decoded, 1) THEN Ok(decoded) ELSE Panic

\* position p (1-based, p = Len+1 is the end) is a char boundary of s
IsCharBoundary(s, p) == p = Len(s) + 1 \/ (p \in 1..Len(s) /\ s[p] \notin 128..191)

\* String::replace_range(start..end, with): panics on a range that is out of
\* bounds or not on char boundaries
ReplaceRange(s, start, end, with) ==
    IF start <= end /\ IsCharBoundary(s, start) /\ IsCharBoundary(s, end)
    THEN Ok(SubSeq(s, 1, start - 1) \o with \o SubSeq(s, end, Len(s)))
    ELSE Panic

\* the loop of lines 178-186 over matches[1..i], last match first
RECURSIVE ApplyMatches(_, _, _)
ApplyMatches(s, ms, i) ==
    IF i = 0 THEN Ok(s)
    ELSE LET d == DecodeEmail(ms[i].data) IN
         IF ~d.ok THEN Panic
         ELSE LET r == ReplaceRange(s, ms[i].start, ms[i].end, d.val) IN
              IF ~r.ok THEN Panic ELSE ApplyMatches(r.val, ms, i - 1)

\* fix_emails (lines 167-188)
fix_emails(input) ==
    LET caps == CapturesIter(input, 1)
        datas == [i \in 1..Len(caps) |-> EmailData(caps[i].attrs)]
    IN  IF \E i \in 1..Len(caps) : ~datas[i].found THEN Panic
        ELSE ApplyMatches(input,
                          [i \in 1..Len(caps) |->
                              [start |-> caps[i].start, end |-> caps[i].end,
                               data |-> datas[i].data]],
                          Len(caps))

\* --------------------------------------------- Chapter and the TOC anchors
\* Chapter::new (lines 19-25)
ChapterNew(name, link) ==
    [name |-> name,
     link |-> IF ~starts_with(link, Http) THEN HttpsScheme \o link ELSE link,
     content |-> <<>>]

\* main, lines 31-34: the link argument with one trailing "/" popped
TrimLink(link) == IF ends_with(link, <<47>>) THEN SubSeq(link, 1, Len(link) - 1) ELSE link

\* the closure of get_chapter_list's filter_map (lines 148-161) on one anchor:
\* a sequence holding the Chapter, or the empty sequence (None)
AnchorToChapter(root, text, href) ==
    IF href.has
    THEN <<ChapterNew(text,
                      IF starts_with(href.val, <<47>>) THEN root \o href.val ELSE href.val)>>
    ELSE <<>>

\* ------------------------------------------------ inputs of the decoder runs
HexDigit(n) == IF n < 10 THEN 48 + n ELSE 87 + n

HexEncode(B) == Concat([i \in 1..Len(B) |-> <<HexDigit(B[i] \div 16), HexDigit(B[i] % 16)>>])

\* what the CDN does to a plaintext: the key, then each byte XOR the key
Obfuscate(key, plain) == <<key>> \o [i \in 1..Len(plain) |-> XorBits(plain[i], key, 8)]

\* <a {pre}data-cfemail="{hex(B)}">[email&nbsp;protected]</a>
Anchor(pre, B) == AOpen \o pre \o CfAttr \o HexEncode(B) \o <<34, 62>> \o Marker

Seg(isAnchor, B, text) == [anchor |-> isAnchor, B |-> B, text |-> text]

\* " x "
SegText == Seg(FALSE, <<>>, <<32, 120, 32>>)
\* an anchor for "a@b", key 0x54, after a class attribute
SegMail == LET B == Obfuscate(84, <<97, 64, 98>>) IN Seg(TRUE, B, Anchor(ClassAttr, B))
\* an anchor for U+00E9, key 0x2a
SegUtf8 == LET B == Obfuscate(42, <<195, 169>>) IN Seg(TRUE, B, Anchor(<<>>, B))
\* an anchor whose plaintext is "<a", key 0x07
SegOpen == LET B == Obfuscate(7, <<60, 97>>) IN Seg(TRUE, B, Anchor(<<>>, B))
\* an anchor whose payload 00ff decodes to the byte 0xff
SegBadUtf8 == Seg(TRUE, <<0, 255>>, Anchor(<<>>, <<0, 255>>))
\* the text  data-cfemail="00">[email&nbsp;protected]</a>  after one space
SegTailSp == Seg(FALSE, <<>>, <<32>> \o CfAttr \o <<48, 48, 34, 62>> \o Marker)
\* the same text without the space
SegTail == Seg(FALSE, <<>>, CfAttr \o <<48, 48, 34, 62>> \o Marker)
\* <a x>[email&nbsp;protected]</a>: the outer pattern without a data-cfemail
SegNoData == Seg(FALSE, <<>>, AOpen \o <<120, 62>> \o Marker)

Segments == {SegText, SegMail, SegUtf8, SegOpen, SegBadUtf8, SegTailSp, SegTail, SegNoData}

SegLists == UNION {[1..n -> Segments] : n \in 0..MaxSegs}

SegString(segs) == Concat([i \in 1..Len(segs) |-> segs[i].text])

\* ------------------------------------------------- inputs of the TOC runs
HrefParts == {Http, <<115>>, <<58, 47, 47>>, <<47>>, <<119, 46, 101>>}

Hrefs == {[has |-> FALSE, val |-> <<>>]} \cup
         {[has |-> TRUE, val |-> Concat(ps)] :
             ps \in UNION {[1..n -> HrefParts] : n \in 0..MaxHrefParts}}

\* "http://r.e/" and "https://r.e"
LinkArgs == {HttpScheme \o <<114, 46, 101, 47>>, HttpsScheme \o <<114, 46, 101>>}

\* "Ch"
AnchorText == <<67, 104>>

\* ------------------------------------------------------------ get_chapter
\* str::replace(pat, with): every non-overlapping occurrence, left to right
RECURSIVE StrReplace(_, _, _)
StrReplace(s, pat, with) ==
    IF s = <<>> THEN <<>>
    ELSE IF StartsWithAt(s, 1, pat)
         THEN with \o StrReplace(SubSeq(s, Len(pat) + 1, Len(s)), pat, with)
         ELSE <<Head(s)>> \o StrReplace(Tail(s), pat, with)

Outcome(tag, name, link, content) ==
    [tag |-> tag, name |-> name, link |-> link, content |-> content]

ErrOutcome == Outcome("Err", <<>>, <<>>, <<>>)
PanicOutcome == Outcome("Panic", <<>>, <<>>, <<>>)

\* lines 113-115: the title after the .entry-title step; text().next().unwrap()
\* panics on an element without a text node
EntryTitle(name, r) ==
    IF ~r.hasTitle THEN Ok(name)
    ELSE IF r.titleNodes = <<>> THEN Panic
    ELSE Ok(StrReplace(r.titleNodes[1], EnDash, <<45>>))

\* lines 127-135: skip(1), pop(), push(separator), join(""), fix_emails
ChapterBody(paras) ==
    LET skipped == IF paras = <<>> THEN <<>> ELSE Tail(paras)
        popped == IF skipped = <<>> THEN <<>> ELSE SubSeq(skipped, 1, Len(skipped) - 1)
    IN  fix_emails(Concat(Append(popped, Butterfly)))

\* get_chapter (lines 107-139) on the response r of the request for ch.link
get_chapter(ch, r) ==
    IF ~r.net THEN ErrOutcome
    ELSE LET t == EntryTitle(ch.name, r) IN
         IF ~t.ok THEN PanicOutcome
         ELSE IF ~r.hasContent
              THEN Outcome("Ok", t.val, ch.link,
                           CouldNot \o t.val \o From \o ch.link \o <<46>>)
              ELSE LET b == ChapterBody(r.paras) IN
                   IF ~b.ok THEN PanicOutcome
                   ELSE Outcome("Ok", t.val, ch.link,
                                H1Open \o t.val \o H1Close \o b.val)

\* ------------------------------------------- what the network may answer
Response(net, hasTitle, titleNodes, hasContent, paras) ==
    [net |-> net, hasTitle |-> hasTitle, titleNodes |-> titleNodes,
     hasContent |-> hasContent, paras |-> paras]

\* "<p>" s "</p>"
Para(s) == <<60, 112, 62>> \o s \o <<60, 47, 112, 62>>
\* "A", EN DASH with a space on each side, "1"
PageTitle == <<65, 32>> \o EnDash \o <<32, 49>>

RespNetErr == Response(FALSE, FALSE, <<>>, FALSE, <<>>)
RespBare == Response(TRUE, FALSE, <<>>, FALSE, <<>>)
RespNoContent == Response(TRUE, TRUE, <<PageTitle>>, FALSE, <<>>)
RespEmptyTitle == Response(TRUE, TRUE, <<>>, FALSE, <<>>)
RespGood ==
    Response(TRUE, TRUE, <<PageTitle>>, TRUE,
             <<Para(<<110>>), Para(<<98>>), Para(SegMail.text), Para(<<110>>)>>)
RespBadMail ==
    Response(TRUE, TRUE, <<PageTitle>>, TRUE,
             <<Para(<<110>>), Para(SegNoData.text), Para(<<110>>)>>)

Responses == {RespNetErr, RespBare, RespNoContent, RespEmptyTitle, RespGood, RespBadMail}

\* ------------------------------------------------------- the TOC of a run
\* "https://r.e/"
RunLinkArg == HttpsScheme \o <<114, 46, 101, 47>>

\* the i-th anchor of the TOC page: "Ch 1" -> /a and "Ch 2" -> w.e/q in turn,
\* so that a TOC of three lists the first chapter twice
TocAnchor(i) ==
    IF i % 2 = 1 THEN [text |-> <<67, 104, 32, 49>>, href |-> [has |-> TRUE, val |-> <<47, 97>>]]
    ELSE [text |-> <<67, 104, 32, 50>>, href |-> [has |-> TRUE, val |-> <<119, 46, 101, 47, 113>>]]

\* get_chapter_list (lines 146-164) on a TOC page of k anchors
Toc(k) ==
    Concat([i \in 1..k |->
              AnchorToChapter(TrimLink(RunLinkArg), TocAnchor(i).text, TocAnchor(i).href)])

\* ------------------------------------------------- main: the download loop
DefaultThreads == 8

\* args().nth(2).unwrap_or("8").parse()? (line 30), for the values that parse
ThreadArgs == (0..MaxThreads) \cup {DefaultThreads}

PipeInit ==
    /\ pc = "download"
    /\ num_threads \in ThreadArgs
    /\ toc \in {Toc(k) : k \in 0..MaxChapters}
    /\ nextIncoming = 0
    /\ srcDone = FALSE
    /\ inProgress = {}
    /\ queuedOutputs = <<>>
    /\ nextOutgoing = 1
    /\ chapters = <<>>
    /\ fetched = <<>>
    /\ asmIdx = 0
    /\ docs = <<>>
    /\ panicMsg = ""

PipeOff ==
    /\ pc = "off"
    /\ num_threads = 0
    /\ toc = <<>>
    /\ nextIncoming = 0
    /\ srcDone = FALSE
    /\ inProgress = {}
    /\ queuedOutputs = <<>>
    /\ nextOutgoing = 1
    /\ chapters = <<>>
    /\ fetched = <<>>
    /\ asmIdx = 0
    /\ docs = <<>>
    /\ panicMsg = ""

\* FuturesOrdered::len as Buffered reads it: the futures still running plus
\* the outputs that finished out of turn and wait to be yielded
BufferedLenInFlightOnly == Cardinality(inProgress)
BufferedLen == Cardinality(inProgress) + Cardinality(DOMAIN queuedOutputs)

\* the condition of Buffered::poll_next's fill loop, buffered(num_threads) (line 46)
CanFillUnbounded == pc = "download" /\ ~srcDone
CanFill == pc = "download" /\ BufferedLen < num_threads /\ ~srcDone

\* the output of index i is the one buffer.next() yields next
IsNextAny(i) == TRUE
IsNextOutgoing(i) == i = nextOutgoing

HeadReady == nextOutgoing \in DOMAIN queuedOutputs

\* the fill loop takes the next future of stream::iter(handles) (lines 43-46)
Admit ==
    /\ CanFill
    /\ nextIncoming < Len(toc)
    /\ nextIncoming' = nextIncoming + 1
    /\ inProgress' = inProgress \cup {nextIncoming + 1}
    /\ UNCHANGED <<pc, num_threads, toc, srcDone, queuedOutputs, nextOutgoing,
                   chapters, fetched, asmIdx, docs, panicMsg>>

\* the fill loop finds stream::iter(handles) exhausted
SourceEnds ==
    /\ CanFill
    /\ nextIncoming = Len(toc)
    /\ srcDone' = TRUE
    /\ UNCHANGED <<pc, num_threads, toc, nextIncoming, inProgress, queuedOutputs,
                   nextOutgoing, chapters, fetched, asmIdx, docs, panicMsg>>

\* buffer.next() yields the waiting output whose turn it is; main pushes it
\* (lines 48-49)
Yield ==
    /\ pc = "download"
    /\ ~CanFill
    /\ HeadReady
    /\ chapters' = Append(chapters, queuedOutputs[nextOutgoing])
    /\ queuedOutputs' = [j \in DOMAIN queuedOutputs \ {nextOutgoing} |-> queuedOutputs[j]]
    /\ nextOutgoing' = nextOutgoing + 1
    /\ UNCHANGED <<pc, num_threads, toc, nextIncoming, srcDone, inProgress,
                   fetched, asmIdx, docs, panicMsg>>

\* the request of chapter i is answered with r and get_chapter runs to its
\* end inside the poll: a panic unwinds main, an output in turn is yielded
\* and pushed (lines 48-49), any other waits in queued_outputs
Complete(i, r) ==
    /\ pc = "download"
    /\ ~CanFill
    /\ ~HeadReady
    /\ i \in inProgress
    /\ fetched' = Append(fetched, [idx |-> i, resp |-> r])
    /\ LET o == get_chapter(toc[i], r) IN
       IF o.tag = "Panic"
       THEN /\ pc' = "panicked"
            /\ panicMsg' = "get_chapter"
            /\ UNCHANGED <<inProgress, queuedOutputs, nextOutgoing, chapters>>
       ELSE /\ inProgress' = inProgress \ {i}
            /\ UNCHANGED <<pc, panicMsg>>
            /\ IF IsNextOutgoing(i)
               THEN /\ chapters' = Append(chapters, o)
                    /\ nextOutgoing' = nextOutgoing + 1
                    /\ UNCHANGED queuedOutputs
               ELSE /\ queuedOutputs' = (i :> o) @@ queuedOutputs
                    /\ UNCHANGED <<chapters, nextOutgoing>>
    /\ UNCHANGED <<num_threads, toc, nextIncoming, srcDone, asmIdx, docs>>

\* buffer.next() returns None: nothing buffered and the source is done; main
\* goes on to the builder and the title page (lines 51-79)
LoopEnds ==
    /\ pc = "download"
    /\ ~CanFill
    /\ BufferedLen = 0
    /\ srcDone
    /\ pc' = "assemble"
    /\ UNCHANGED <<num_threads, toc, nextIncoming, srcDone, inProgress,
                   queuedOutputs, nextOutgoing, chapters, fetched, asmIdx, docs,
                   panicMsg>>

\* ----------------------------------------------------- main: the assembly
\* whitespace.replace_all(&chapter.name, "_") with whitespace = \s+ (lines 79, 86)
RECURSIVE FileName(_)
FileName(name) ==
    IF name = <<>> THEN <<>>
    ELSE IF IsSpace(Head(name))
         THEN IF Len(name) >= 2 /\ IsSpace(name[2])
              THEN FileName(Tail(name))
              ELSE <<95>> \o FileName(Tail(name))
         ELSE <<Head(name)>> \o FileName(Tail(name))

\* the EpubContent of lines 85-90
Doc(chapter) ==
    [file |-> FileName(chapter.name), title |-> chapter.name, body |-> chapter.content]

\* if let Ok(chapter) = c (line 83)
IsOkOrErr(c) == TRUE
IsOk(c) == c.tag = "Ok"

\* one iteration of the for_each of lines 80-93; the builder accepts the
\* addition or rejects it, and expect() panics on a rejection (line 91)
AddChapter ==
    /\ pc = "assemble"
    /\ asmIdx < Len(chapters)
    /\ LET c == chapters[asmIdx + 1] IN
       IF IsOk(c)
       THEN \E accepted \in BOOLEAN :
              IF accepted
              THEN /\ docs' = Append(docs, Doc(c))
                   /\ asmIdx' = asmIdx + 1
                   /\ UNCHANGED <<pc, panicMsg>>
              ELSE /\ pc' = "panicked"
                   /\ panicMsg' = "Couldn't add chapter"
                   /\ UNCHANGED <<docs, asmIdx>>
       ELSE /\ asmIdx' = asmIdx + 1
            /\ UNCHANGED <<pc, panicMsg, docs>>
    /\ UNCHANGED <<num_threads, toc, nextIncoming, srcDone, inProgress,
                   queuedOutputs, nextOutgoing, chapters, fetched>>

\* the for_each is over (lines 94-96)
AssemblyEnds ==
    /\ pc = "assemble"
    /\ asmIdx = Len(chapters)
    /\ pc' = "write"
    /\ UNCHANGED <<num_threads, toc, nextIncoming, srcDone, inProgress,
                   queuedOutputs, nextOutgoing, chapters, fetched, asmIdx, docs,
                   panicMsg>>

\* File::create, epub.generate and the last line (lines 97-102)
WriteFile ==
    /\ pc = "write"
    /\ \E result \in {"saved", "Unable to write to file", "epub generation failed"} :
         IF result = "saved"
         THEN pc' = "saved" /\ UNCHANGED panicMsg
         ELSE pc' = "panicked" /\ panicMsg' = result
    /\ UNCHANGED <<num_threads, toc, nextIncoming, srcDone, inProgress,
                   queuedOutputs, nextOutgoing, chapters, fetched, asmIdx, docs>>

\* ------------------------------------------------------- the decoder runs
EmInit ==
    /\ em_pc = "input"
    /\ em_segs \in SegLists
    /\ em_in = SegString(em_segs)
    /\ em_once = Panic
    /\ em_twice = Panic

EmOff ==
    /\ em_pc = "off"
    /\ em_segs = <<>>
    /\ em_in = <<>>
    /\ em_once = Panic
    /\ em_twice = Panic

\* fix_emails on the joined paragraphs (line 135)
EmApplyOnce ==
    /\ em_pc = "input"
    /\ em_once' = fix_emails(em_in)
    /\ em_pc' = "once"
    /\ UNCHANGED <<em_segs, em_in, em_twice>>

\* fix_emails on content that went through it already (line 202)
EmApplyTwice ==
    /\ em_pc = "once"
    /\ em_once.ok
    /\ em_twice' = fix_emails(em_once.val)
    /\ em_pc' = "twice"
    /\ UNCHANGED <<em_segs, em_in, em_once>>

\* ----------------------------------------------------------- the TOC runs
NoChapter == <<>>

UrlInit ==
    /\ url_pc = "args"
    /\ url_arg \in LinkArgs
    /\ url_href \in Hrefs
    /\ url_root = <<>>
    /\ url_out = NoChapter

UrlOff ==
    /\ url_pc = "off"
    /\ url_arg = <<>>
    /\ url_href = [has |-> FALSE, val |-> <<>>]
    /\ url_root = <<>>
    /\ url_out = NoChapter

\* main, lines 31-34
UrlTrim ==
    /\ url_pc = "args"
    /\ url_root' = TrimLink(url_arg)
    /\ url_pc' = "toc"
    /\ UNCHANGED <<url_arg, url_href, url_out>>

\* get_chapter_list's closure on the anchor (lines 148-161)
UrlAnchor ==
    /\ url_pc = "toc"
    /\ url_out' = AnchorToChapter(url_root, AnchorText, url_href)
    /\ url_pc' = "done"
    /\ UNCHANGED <<url_arg, url_href, url_root>>

\* --------------------------------------------------------- specifications
Init == PipeInit /\ EmOff /\ UrlOff

Next ==
    \/ Admit /\ UNCHANGED <<emVars, urlVars>>
    \/ SourceEnds /\ UNCHANGED <<emVars, urlVars>>
    \/ Yield /\ UNCHANGED <<emVars, urlVars>>
    \/ \E i \in 1..Len(toc), r \in Responses : Complete(i, r) /\ UNCHANGED <<emVars, urlVars>>
    \/ LoopEnds /\ UNCHANGED <<emVars, urlVars>>
    \/ AddChapter /\ UNCHANGED <<emVars, urlVars>>
    \/ AssemblyEnds /\ UNCHANGED <<emVars, urlVars>>
    \/ WriteFile /\ UNCHANGED <<emVars, urlVars>>

Spec == Init /\ [][Next]_vars

\* every step main can take is taken, and every request is answered
FairSpec == Init /\ [][Next]_vars /\ WF_vars(Next)

InitEmail == PipeOff /\ EmInit /\ UrlOff

NextEmail ==
    \/ EmApplyOnce /\ UNCHANGED <<pipeVars, urlVars>>
    \/ EmApplyTwice /\ UNCHANGED <<pipeVars, urlVars>>

SpecEmail == InitEmail /\ [][NextEmail]_vars

InitUrl == PipeOff /\ EmOff /\ UrlInit

NextUrl ==
    \/ UrlTrim /\ UNCHANGED <<pipeVars, emVars>>
    \/ UrlAnchor /\ UNCHANGED <<pipeVars, emVars>>

SpecUrl == InitUrl /\ [][NextUrl]_vars

\* ------------------------------------------------------------- properties
AfterDownload == {"assemble", "write", "saved"}

FetchedIdx == {fetched[j].idx : j \in 1..Len(fetched)}

RespOf(i) == fetched[CHOOSE j \in 1..Len(fetched) : fetched[j].idx = i].resp

\* C1: the outcomes main collects are, position by position, the outcomes of
\* the TOC's chapters (the i-th collected outcome is what get_chapter gave for
\* the i-th chapter and the answer its request got), whatever the order in
\* which the requests were answered; when the loop has ended there are as
\* many outcomes as chapters; an Ok outcome carries the link of its chapter.
C1_OrderPreserved ==
    /\ Len(chapters) <= Len(toc)
    /\ \A i \in 1..Len(chapters) :
          /\ i \in FetchedIdx
          /\ chapters[i] = get_chapter(toc[i], RespOf(i))
          /\ chapters[i].tag = "Ok" => chapters[i].link = toc[i].link
    /\ pc \in AfterDownload => Len(chapters) = Len(toc)

\* the last of three chapters was answered first, the first one last, and the
\* loop has ended with the three outcomes
C1_Witness ==
    /\ pc = "assemble"
    /\ Len(toc) = 3
    /\ Len(chapters) = 3
    /\ fetched[1].idx = 3
    /\ fetched[3].idx = 1
    /\ chapters[3].tag = "Ok"

\* the documents the Ok outcomes among cs give, in order
RECURSIVE OkDocs(_)
OkDocs(cs) ==
    IF cs = <<>> THEN <<>>
    ELSE IF Head(cs).tag = "Ok"
         THEN <<[file |-> FileName(Head(cs).name), title |-> Head(cs).name,
                 body |-> Head(cs).content]>> \o OkDocs(Tail(cs))
         ELSE OkDocs(Tail(cs))

\* C2: an Err outcome is skipped and does not interrupt the assembly: the
\* documents added so far are exactly those of the Ok outcomes visited so
\* far, in order; the for_each stops early only at an Ok outcome whose
\* addition the builder rejected; at the file-writing step the documents are
\* those of all the Ok outcomes.
C2_ErrSkipped ==
    /\ pc \in AfterDownload \cup {"panicked"} =>
          docs = OkDocs(SubSeq(chapters, 1, asmIdx))
    /\ pc \in {"write", "saved"} => asmIdx = Len(chapters)
    /\ (pc = "panicked" /\ panicMsg = "Couldn't add chapter") =>
          (asmIdx < Len(chapters) /\ chapters[asmIdx + 1].tag = "Ok")

\* the file-writing step is reached with an Err outcome between two Ok ones
C2_Witness ==
    /\ pc = "write"
    /\ Len(chapters) = 3
    /\ chapters[1].tag = "Ok"
    /\ chapters[2].tag = "Err"
    /\ chapters[3].tag = "Ok"
    /\ Len(docs) = 2

\* C3: no per-chapter failure aborts the run: the run is never ended by a
\* panic of get_chapter or by the builder rejecting a chapter.
C3_NoPerChapterAbort ==
    ~(pc = "panicked" /\ panicMsg \in {"get_chapter", "Couldn't add chapter"})

\* the outcome of chapter i, once there is one
HasOutcome(i) == i <= Len(chapters) \/ i \in DOMAIN queuedOutputs

OutcomeOf(i) == IF i <= Len(chapters) THEN chapters[i] ELSE queuedOutputs[i]

\* how many Ok outcomes chapters[1..i] holds
OkRank(i) == Cardinality({j \in 1..i : chapters[j].tag = "Ok"})

\* the title the claim speaks of: the TOC's, or the page's first text node
\* with EN DASH replaced
TitleAfterStep(ch, r) ==
    IF r.hasTitle /\ r.titleNodes # <<>>
    THEN StrReplace(r.titleNodes[1], EnDash, <<45>>) ELSE ch.name

\* C4: every chapter whose page came without .entry-content has an Ok outcome
\* whose content is exactly "Could not retrieve chapter {title} from: {url}."
\* (no <h1>, no separator), and once the assembly is over the document at its
\* position holds that content.
C4_SoftFailure ==
    \A j \in 1..Len(fetched) :
        LET i == fetched[j].idx
            r == fetched[j].resp
            text == CouldNot \o TitleAfterStep(toc[i], r) \o From \o toc[i].link \o <<46>>
        IN  (r.net /\ ~r.hasContent) =>
              /\ HasOutcome(i)
              /\ OutcomeOf(i).tag = "Ok"
              /\ OutcomeOf(i).content = text
              /\ ~starts_with(text, H1Open) /\ ~ends_with(text, Butterfly)
              /\ pc \in {"write", "saved"} => docs[OkRank(i)].body = text

\* C5: at most num_threads chapter fetches are started and not yet finished.
C5_WindowBound == Cardinality(inProgress) <= num_threads

\* two fetches in flight under a bound of two, with a chapter still unstarted
C5_Witness ==
    /\ pc = "download"
    /\ num_threads = 2
    /\ Cardinality(inProgress) = 2
    /\ nextIncoming < Len(toc)

\* C6: for every num-threads value that parses, 0 included, the download loop
\* ends with one outcome per chapter (unless a panic ends the run first).
C6_LoopTerminates ==
    <>(pc = "panicked" \/ (pc \in AfterDownload /\ Len(chapters) = Len(toc)))

\* C7: the url made from an anchor with an href starts with http:// or
\* https://, and is the href itself if that starts with "http", root + href
\* if it starts with "/", and https:// + href otherwise.
C7_UrlNormalized ==
    (url_pc = "done" /\ url_href.has) =>
        /\ Len(url_out) = 1
        /\ \/ starts_with(url_out[1].link, HttpScheme)
           \/ starts_with(url_out[1].link, HttpsScheme)
        /\ url_out[1].link =
              IF starts_with(url_href.val, Http) THEN url_href.val
              ELSE IF starts_with(url_href.val, <<47>>) THEN url_root \o url_href.val
              ELSE HttpsScheme \o url_href.val

\* what the claim says a segment becomes: an anchor for B the bytes
\* B[i] XOR B[0], i >= 1; any other text itself
SegPlain(seg) ==
    IF seg.anchor
    THEN [i \in 1..(Len(seg.B) - 1) |-> XorBits(seg.B[i + 1], seg.B[1], 8)]
    ELSE seg.text

\* C8: on a text whose anchors all carry a data-cfemail of hex(B) with
\* len(B) >= 2, fix_emails returns, and returns the text with each anchor
\* replaced by the bytes B[i] XOR B[0] and the rest unchanged.
C8_DecodesEveryPayload ==
    (/\ em_pc \in {"once", "twice"}
     /\ \A k \in 1..Len(em_segs) : em_segs[k] # SegNoData
     /\ \A k \in 1..Len(em_segs) : em_segs[k].anchor => Len(em_segs[k].B) >= 2)
    => /\ em_once.ok
       /\ em_once.val = Concat([k \in 1..Len(em_segs) |-> SegPlain(em_segs[k])])

\* C9 as stated: a second application never changes the result of the first.
C9_Idempotent == em_pc = "twice" => em_twice = em_once

\* s holds an occurrence of <a , one or more characters other than '>', '>'
\* and the marker
HasOuterPattern(s) ==
    \E p \in 1..Len(s), q \in 1..Len(s) :
        /\ StartsWithAt(s, p, AOpen)
        /\ q >= p + Len(AOpen) + 1
        /\ s[q] = 62
        /\ \A j \in (p + Len(AOpen))..(q - 1) : s[j] # 62
        /\ StartsWithAt(s, q + 1, Marker)

\* C9, amended: a second application leaves the result of the first unchanged
\* exactly when that result holds no occurrence of the outer anchor pattern
\* (decoded plaintext can bring one in, or complete one).
C9_IdempotentIffNoFreshAnchor ==
    em_pc = "twice" => (em_twice = em_once <=> ~HasOuterPattern(em_once.val))

\* the first application decoded something, its result holds no anchor, and
\* the second application returned it as it was
C9_Witness ==
    /\ em_pc = "twice"
    /\ Len(em_segs) >= 2
    /\ em_once.val # em_in
    /\ ~HasOuterPattern(em_once.val)
    /\ em_twice = em_once

\* the scheduler waits: the fill loop has nothing to admit and no output is
\* ready in turn
AtRest == pc = "download" /\ ~CanFill /\ ~HeadReady

\* C10 as stated: a finished fetch frees its place at once, so that while
\* unstarted chapters remain and the scheduler waits, num_threads fetches are
\* in flight, results waiting in the reordering buffer not counted.
C10_SlidingWindow ==
    (AtRest /\ nextIncoming < Len(toc)) => Cardinality(inProgress) = num_threads

\* C10, amended: results that wait in the reordering buffer hold their places
\* in the window: fetches in flight and waiting results together never exceed
\* num_threads, and are exactly num_threads whenever the scheduler waits with
\* chapters still unstarted; the next chapter is admitted only once the
\* result at the head has been handed to main.
C10_WindowCountsBuffered ==
    /\ Cardinality(inProgress) + Cardinality(DOMAIN queuedOutputs) <= num_threads
    /\ (AtRest /\ nextIncoming < Len(toc)) =>
          Cardinality(inProgress) + Cardinality(DOMAIN queuedOutputs) = num_threads

\* the first chapter is in flight, the second one's result waits, the third
\* chapter is not admitted
C10_Witness ==
    /\ AtRest
    /\ num_threads = 2
    /\ inProgress = {1}
    /\ DOMAIN queuedOutputs = {2}
    /\ nextIncoming = 2
    /\ Len(toc) = 3

====
